---------------------------- MODULE Spec2Model ----------------------------
(***************************************************************************)
(* Model of the Touch research assistant backend:                          *)
(*   backend/app/agents/research_agent.py  (TouchResearchAgent)            *)
(*   backend/app/main.py                   (endpoints, streaming agent)    *)
(*                                                                         *)
(* Text is modelled as a sequence of tokens.  A token is either a single   *)
(* character that the code inspects ("#", "\n", " ", ":", ".") or a word:  *)
(* a run of characters none of which the code inspects.  TokLen gives the  *)
(* number of characters a token stands for.                                *)
(***************************************************************************)
EXTENDS Integers, Sequences, FiniteSets, TLC

VARIABLES
    \* ---- formatting harness (ensure_markdown_formatting) ----
    fmt_pc, fmt_answer, fmt_sources, fmt_out1, fmt_out2,
    \* ---- extraction harness (extract_sources_from_steps) ----
    ext_pc, ext_steps, ext_out,
    \* ---- scoring harness (calculate_enhanced_confidence) ----
    conf_pc, conf_sources, conf_answer, conf_query_type, conf_out,
    \* ---- a request to the service ----
    entry,            \* "research_query" (TouchResearchAgent.research_query)
                      \* or "stream" (GET /api/research/stream)
    cur_query,            \* the query text
    has_on_step,      \* research_query was given an on_step callback
    pc,               \* position of the run in research_query
    count,            \* StepCounter.count
    progress,         \* the steps delivered to on_step, in order
    safety,           \* the safety service's reply to the input check
    classification,   \* classification_result
    sub_questions,
    iterations,       \* iterations of the tool loop so far
    steps,            \* intermediate_steps of the tool loop
    exhausted,        \* "" or the budget that ended the tool loop
    cur_answer,           \* the answer being finished
    cur_sources,          \* sanitized_sources
    moderation,       \* the moderation service's reply to the output check
    result,           \* what research_query returned
    fault,            \* the stage at which an exception was raised, "" if none
    calls,            \* the external services called so far
    stream_pc,        \* state of the response stream
    events,           \* the events written to the response stream
    prompted,         \* the external text placed into model prompts so far
    conversations,    \* the conversation store of main.py
    http_response,    \* the answer of POST /api/research
    \* two POST /api/research requests served by one event loop
    requests,         \* per request: its position, query, step numbers, result
    counters,         \* the value of each StepCounter object, by its owner
    \* _add_inline_citations
    cit_pc, cit_in, cit_out

fmt_vars == <<fmt_pc, fmt_answer, fmt_sources, fmt_out1, fmt_out2>>
ext_vars == <<ext_pc, ext_steps, ext_out>>
conf_vars == <<conf_pc, conf_sources, conf_answer, conf_query_type, conf_out>>

run_vars ==
    <<entry, cur_query, has_on_step, pc, count, progress, safety, classification,
      sub_questions, iterations, steps, exhausted, cur_answer, cur_sources, moderation,
      result, fault, calls, stream_pc, events, prompted, conversations,
      http_response>>

conc_vars == <<requests, counters>>

cit_vars == <<cit_pc, cit_in, cit_out>>

vars == <<fmt_vars, ext_vars, conf_vars, run_vars, conc_vars, cit_vars>>

(***************************************************************************)
(* Bounds of the model                                                     *)
(***************************************************************************)
MaxLen == 4
MaxSteps == 3
MaxSources == 20
MaxToolCalls == 5
MaxCallbackFailures == 1
MaxSentences == 7
MaxCitedSources == 3

(***************************************************************************)
(* Text primitives (Python str / re semantics on token sequences)          *)
(***************************************************************************)
NL == "\n"
SP == " "
HASH == "#"

MarkerWord == "Agent stopped due to max iterations"
NoAnswerText == "No answer was generated."
ResearchCompletedText == "Research completed with available information."
ResearchResultsWord == "Research Results"
FormatErrorNote == "Note: There was an error formatting this response."
LongWord == "LongLine"

\* len() of the characters a token stands for
LimitStopText == "Agent stopped due to iteration limit or time limit"

TokLen(t) ==
    CASE t = MarkerWord -> 35
      [] t = LimitStopText -> 50
      [] t \in {"[1]", "[2]", "[3]", "[4]", "[5]", "[6]", "[7]", "[8]"} -> 3
      [] t = NoAnswerText -> 24
      [] t = ResearchCompletedText -> 46
      [] t = ResearchResultsWord -> 16
      [] t = FormatErrorNote -> 50
      [] t = LongWord -> 100
      [] t = "Sources" -> 7
      [] t = "References" -> 10
      [] OTHER -> 1

RECURSIVE CharLen(_)
CharLen(s) == IF s = <<>> THEN 0 ELSE TokLen(Head(s)) + CharLen(Tail(s))

\* \s of the re module, str.strip() whitespace
IsSpace(t) == t \in {SP, NL}

RECURSIVE LStrip(_)
LStrip(s) == IF s # <<>> /\ IsSpace(Head(s)) THEN LStrip(Tail(s)) ELSE s

RECURSIVE RStrip(_)
RStrip(s) ==
    IF s # <<>> /\ IsSpace(s[Len(s)]) THEN RStrip(SubSeq(s, 1, Len(s) - 1)) ELSE s

\* str.strip()
Strip(s) == RStrip(LStrip(s))

\* str.startswith(p)
StartsWith(s, p) == Len(s) >= Len(p) /\ SubSeq(s, 1, Len(p)) = p

\* str.endswith(p)
EndsWith(s, p) == Len(s) >= Len(p) /\ SubSeq(s, Len(s) - Len(p) + 1, Len(s)) = p

\* `sub in s`
Contains(s, sub) ==
    \E i \in 1..(Len(s) - Len(sub) + 1) : SubSeq(s, i, i + Len(sub) - 1) = sub

\* str.replace(old, new): non-overlapping occurrences, left to right
RECURSIVE Replace(_, _, _)
Replace(s, old, new) ==
    IF s = <<>> THEN <<>>
    ELSE IF StartsWith(s, old)
         THEN new \o Replace(SubSeq(s, Len(old) + 1, Len(s)), old, new)
         ELSE <<Head(s)>> \o Replace(Tail(s), old, new)

\* index of the first NL of s, 0 when there is none
RECURSIVE FirstNL(_, _)
FirstNL(s, i) ==
    IF i > Len(s) THEN 0 ELSE IF s[i] = NL THEN i ELSE FirstNL(s, i + 1)

\* str.split('\n'): the list of lines (always at least one)
RECURSIVE SplitLines(_)
SplitLines(s) ==
    LET k == FirstNL(s, 1) IN
    IF k = 0 THEN <<s>>
    ELSE <<SubSeq(s, 1, k - 1)>> \o SplitLines(SubSeq(s, k + 1, Len(s)))

\* '\n'.join(lines)
RECURSIVE JoinLines(_)
JoinLines(lines) ==
    IF lines = <<>> THEN <<>>
    ELSE IF Len(lines) = 1 THEN lines[1]
    ELSE lines[1] \o <<NL>> \o JoinLines(Tail(lines))

\* number of consecutive "#" of s from index i on
RECURSIVE HashRun(_, _)
HashRun(s, i) ==
    IF i <= Len(s) /\ s[i] = HASH THEN 1 + HashRun(s, i + 1) ELSE 0

\* re.sub(r'([^\n])\n(#{1,6}\s)', r'\1\n\n\2', s)
RECURSIVE SubHeadingBefore(_)
SubHeadingBefore(s) ==
    IF s = <<>> THEN <<>>
    ELSE LET r == HashRun(s, 3) IN
         IF /\ Len(s) >= 4
            /\ s[1] # NL
            /\ s[2] = NL
            /\ r >= 1 /\ r <= 6
            /\ 3 + r <= Len(s)
            /\ IsSpace(s[3 + r])
         THEN <<s[1], NL, NL>> \o SubSeq(s, 3, 3 + r)
                  \o SubHeadingBefore(SubSeq(s, 4 + r, Len(s)))
         ELSE <<Head(s)>> \o SubHeadingBefore(Tail(s))

\* re.sub(r'(#{1,6}.*)\n([^\n#])', r'\1\n\n\2', s)
RECURSIVE SubHeadingAfter(_)
SubHeadingAfter(s) ==
    IF s = <<>> THEN <<>>
    ELSE LET k == FirstNL(s, 1) IN
         IF /\ s[1] = HASH
            /\ k > 0
            /\ k + 1 <= Len(s)
            /\ s[k + 1] \notin {NL, HASH}
         THEN SubSeq(s, 1, k - 1) \o <<NL, NL, s[k + 1]>>
                  \o SubHeadingAfter(SubSeq(s, k + 2, Len(s)))
         ELSE <<Head(s)>> \o SubHeadingAfter(Tail(s))

\* number of consecutive NL of s from index i on
RECURSIVE NLRun(_, _)
NLRun(s, i) ==
    IF i <= Len(s) /\ s[i] = NL THEN 1 + NLRun(s, i + 1) ELSE 0

\* re.sub(r'\n{3,}', '\n\n', s)
RECURSIVE CollapseBlankLines(_)
CollapseBlankLines(s) ==
    IF s = <<>> THEN <<>>
    ELSE LET r == NLRun(s, 1) IN
         IF r >= 3 THEN <<NL, NL>> \o CollapseBlankLines(SubSeq(s, r + 1, Len(s)))
         ELSE <<Head(s)>> \o CollapseBlankLines(Tail(s))

SourcesHeading == <<HASH, HASH, SP, "Sources">>
ReferencesHeading == <<HASH, HASH, SP, "References">>

(***************************************************************************)
(* TouchResearchAgent._ensure_markdown_formatting                          *)
(***************************************************************************)
\* lines 842-849: default text, removal of the "Agent stopped" message
answer_without_marker(answer) ==
    LET a0 == IF answer = <<>> THEN <<NoAnswerText>> ELSE answer IN
    IF Contains(a0, <<MarkerWord>>)
    THEN LET r == Strip(Replace(a0, <<MarkerWord, ".">>, <<>>)) IN
         IF r = <<>> THEN <<ResearchCompletedText>> ELSE r
    ELSE a0

\* variant of answer_with_header that never adds a header
answer_with_header_kept(answer) == answer

\* lines 851-859: add a header when the text does not start with one
answer_with_header(answer) ==
    IF ~StartsWith(Strip(answer), <<HASH>>)
    THEN LET lines == SplitLines(Strip(answer))
             first_line == Strip(lines[1])
         IN IF CharLen(first_line) < 100 /\ ~EndsWith(first_line, <<":">>)
            THEN <<HASH, SP>> \o first_line \o <<NL, NL>> \o JoinLines(Tail(lines))
            ELSE <<HASH, SP, ResearchResultsWord, NL, NL>> \o answer
    ELSE answer

\* lines 861-863: heading spacing
answer_spaced(answer) == SubHeadingAfter(SubHeadingBefore(answer))

\* lines 866-877: the sources section is produced by
\* self._generate_sources_markdown, which the class does not define, so the
\* call raises AttributeError and the except branch returns its own text
ensure_markdown_formatting(answer, sources) ==
    LET a == answer_spaced(answer_with_header(answer_without_marker(answer))) IN
    IF /\ ~Contains(a, SourcesHeading)
       /\ ~Contains(a, ReferencesHeading)
       /\ sources # <<>>
    THEN <<HASH, SP, ResearchResultsWord, NL, NL>> \o a \o <<NL, NL, FormatErrorNote>>
    ELSE Strip(CollapseBlankLines(a))

(***************************************************************************)
(* Tool observations.  An intermediate step is <<action, observation>>; an *)
(* observation is a list of items (web_search) or a text (web_scrape).     *)
(* Relevance scores are in hundredths: 80 stands for 0.8.                  *)
(***************************************************************************)
\* A URL is its network location and its path; 0 stands for the empty string,
\* so Url(0, 0) is the empty URL and Url(0, p) a URL without a host.
Url(netloc, path) == [netloc |-> netloc, path |-> path]
EmptyUrl == Url(0, 0)

Item(title, url, rel_kind, rel) ==
    [type |-> "dict", title |-> title, url |-> url, snippet |-> <<"a">>,
     rel_kind |-> rel_kind, relevance_score |-> rel]

\* a list element that is not a dict
NonDictItem ==
    [type |-> "other", title |-> "", url |-> EmptyUrl, snippet |-> <<>>,
     rel_kind |-> "absent", relevance_score |-> 0]

ListObs(items) == [type |-> "list", items |-> items, text |-> <<>>]
TextObs(text) == [type |-> "str", items |-> <<>>, text |-> text]
ToolAction(tool) == [tool |-> tool]

\* s[:n]
Take(s, n) == SubSeq(s, 1, IF Len(s) < n THEN Len(s) ELSE n)

ItemsPerObservation == 5
MaxSourcesReturned == 8
DefaultRelevance == 80

(***************************************************************************)
(* TouchResearchAgent._extract_sources_from_steps                          *)
(***************************************************************************)
\* lines 763-768: the item is a dict with a non-empty title and url
Qualifies(item) == item.type = "dict" /\ item.title # "" /\ item.url # EmptyUrl

\* line 773: float(item.get("relevance_score", 0.8)) raises on a value that
\* is not a number
RelevanceRaises(item) == item.rel_kind = "bad"

\* lines 769-774
SourceOf(item) ==
    [title |-> item.title, url |-> item.url, snippet |-> item.snippet,
     relevance_score |->
         IF item.rel_kind = "absent" THEN DefaultRelevance ELSE item.relevance_score]

\* lines 751-760: the items of a step that the loop looks at
ItemsToProcess(step_tuple) ==
    IF /\ Len(step_tuple) >= 2
       /\ step_tuple[1].tool = "web_search"
       /\ step_tuple[2].type = "list"
    THEN Take(step_tuple[2].items, ItemsPerObservation)
    ELSE <<>>

RECURSIVE FlattenItems(_)
FlattenItems(intermediate_steps) ==
    IF intermediate_steps = <<>> THEN <<>>
    ELSE ItemsToProcess(Head(intermediate_steps))
             \o FlattenItems(Tail(intermediate_steps))

RECURSIVE SourcesOfItems(_)
SourcesOfItems(items) ==
    IF items = <<>> THEN <<>>
    ELSE (IF Qualifies(Head(items)) THEN <<SourceOf(Head(items))>> ELSE <<>>)
             \o SourcesOfItems(Tail(items))

\* lines 747-779: the collected sources; an exception anywhere in the loop
\* discards everything collected so far
collected_sources(intermediate_steps) ==
    LET items == FlattenItems(intermediate_steps) IN
    IF \E i \in 1..Len(items) : Qualifies(items[i]) /\ RelevanceRaises(items[i])
    THEN <<>>
    ELSE SourcesOfItems(items)

\* variant of unique_sources that keeps every source
unique_sources_all(sources, seen_urls) == sources

\* lines 783-789: first occurrence of each URL wins
RECURSIVE unique_sources(_, _)
unique_sources(sources, seen_urls) ==
    IF sources = <<>> THEN <<>>
    ELSE LET source == Head(sources) IN
         IF source.url # EmptyUrl /\ source.url \notin seen_urls
         THEN <<source>> \o unique_sources(Tail(sources), seen_urls \cup {source.url})
         ELSE unique_sources(Tail(sources), seen_urls)

\* lines 745-795
extract_sources_from_steps(intermediate_steps) ==
    Take(unique_sources(collected_sources(intermediate_steps), {}), MaxSourcesReturned)

(***************************************************************************)
(* Extraction harness: a list of intermediate steps is built from a        *)
(* catalogue of observations, then the sources are extracted from it.      *)
(***************************************************************************)
U(i) == Url(1 + (i % 3), i)

Urls(lo, hi) == [i \in 1..(hi - lo + 1) |-> Item("T", U(lo + i - 1), "num", 90)]

ExtObservations ==
    { ListObs(<<>>),
      ListObs(Urls(1, 5)),
      ListObs(Urls(6, 11)),
      ListObs(<<Item("T", U(1), "num", 50), Item("T", U(1), "absent", 0),
                Item("", U(2), "num", 50), Item("T", EmptyUrl, "num", 50),
                NonDictItem, Item("T", U(12), "num", 70)>>),
      ListObs(<<Item("T", U(13), "num", 50), Item("T", U(14), "bad", 0)>>),
      ListObs(<<Item("", U(15), "bad", 0)>>),
      TextObs(<<"a">>) }

ExtSteps ==
    {<<ToolAction(t), o>> : t \in {"web_search", "web_scrape"}, o \in ExtObservations}
        \cup {<<ToolAction("web_search")>>}

ExtInit ==
    /\ ext_pc = "build"
    /\ ext_steps = <<>>
    /\ ext_out = <<>>

ExtIdle ==
    /\ ext_pc = "off"
    /\ ext_steps = <<>>
    /\ ext_out = <<>>

AddStep ==
    /\ ext_pc = "build"
    /\ Len(ext_steps) < MaxSteps
    /\ \E st \in ExtSteps : ext_steps' = Append(ext_steps, st)
    /\ UNCHANGED <<ext_pc, ext_out, fmt_vars, conf_vars, run_vars, conc_vars, cit_vars>>

ExtractSources ==
    /\ ext_pc = "build"
    /\ ext_out' = extract_sources_from_steps(ext_steps)
    /\ ext_pc' = "extracted"
    /\ UNCHANGED <<ext_steps, fmt_vars, conf_vars, run_vars, conc_vars, cit_vars>>

ExtNext == AddStep \/ ExtractSources

(***************************************************************************)
(* Formatting harness: the text and the sources are drawn from bounded     *)
(* sets, the function is applied once and then again to its own output.    *)
(***************************************************************************)
FmtAlphabet == {HASH, NL, SP, "a", ":", ".", MarkerWord, LongWord}

RECURSIVE SeqsUpTo(_, _)
SeqsUpTo(S, n) ==
    IF n = 0 THEN {<<>>}
    ELSE LET prev == SeqsUpTo(S, n - 1) IN
         prev \cup {Append(s, x) : s \in {p \in prev : Len(p) = n - 1}, x \in S}

FmtSuffixes == {<<>>, SourcesHeading, <<NL>> \o ReferencesHeading \o <<NL, "a">>}

OneSource == [title |-> "T1", url |-> "u1", snippet |-> "s1", relevance_score |-> 80]

FmtIdle ==
    /\ fmt_pc = "off"
    /\ fmt_answer = <<>>
    /\ fmt_sources = <<>>
    /\ fmt_out1 = <<>>
    /\ fmt_out2 = <<>>

FmtInit ==
    /\ fmt_pc = "input"
    /\ fmt_answer \in {b \o x : b \in SeqsUpTo(FmtAlphabet, MaxLen), x \in FmtSuffixes}
    /\ fmt_sources \in {<<>>, <<OneSource>>}
    /\ fmt_out1 = <<>>
    /\ fmt_out2 = <<>>

FormatOnce ==
    /\ fmt_pc = "input"
    /\ fmt_out1' = ensure_markdown_formatting(fmt_answer, fmt_sources)
    /\ fmt_pc' = "once"
    /\ UNCHANGED <<fmt_answer, fmt_sources, fmt_out2, ext_vars, conf_vars, run_vars, conc_vars, cit_vars>>

FormatAgain ==
    /\ fmt_pc = "once"
    /\ fmt_out2' = ensure_markdown_formatting(fmt_out1, fmt_sources)
    /\ fmt_pc' = "twice"
    /\ UNCHANGED <<fmt_answer, fmt_sources, fmt_out1, ext_vars, conf_vars, run_vars, conc_vars, cit_vars>>

FmtNext == FormatOnce \/ FormatAgain

(***************************************************************************)
(* TouchResearchAgent._calculate_enhanced_confidence                       *)
(*                                                                         *)
(* The function reads three things of the answer: the number of words, if  *)
(* it holds both "[" and "]", and the number of [n] markers.  Scores are   *)
(* in hundredths.  With n sources every term is an exact multiple of       *)
(* 1/(400000 n), so the weighted sum is computed as a numerator over       *)
(* ConfidenceDen(n).                                                       *)
(***************************************************************************)
Min(a, b) == IF a < b THEN a ELSE b

SourceCountCap == 8
AnswerWordsCap == 500
NoSourcesConfidence == 10

ConfidenceDen(n) == 400000 * n

RECURSIVE SumRelevance(_)
SumRelevance(sources) ==
    IF sources = <<>> THEN 0
    ELSE Head(sources).relevance_score + SumRelevance(Tail(sources))

\* lines 901-910: the netloc of every non-empty URL
Domains(sources) ==
    {sources[i].url.netloc : i \in {k \in 1..Len(sources) : sources[k].url # EmptyUrl}}

\* lines 887-922, times ConfidenceDen(n)
confidence_numerator(sources, answer, query_type) ==
    LET n == Len(sources)
        source_count_score == 12500 * n * Min(n, SourceCountCap)
        avg_relevance == 1000 * SumRelevance(sources)
        answer_length_score == 120 * n * Min(answer.words, AnswerWordsCap)
        citation_score ==
            IF answer.has_brackets THEN 80000 * Min(answer.citations, n)
            ELSE 40000 * n
        diversity_score == 60000 * Min(Cardinality(Domains(sources)), n)
        complexity_bonus == IF query_type = "complex" THEN 40000 * n ELSE 0
    IN source_count_score + avg_relevance + answer_length_score
           + citation_score + diversity_score + complexity_bonus

\* variant of capped_confidence without the cap
capped_confidence_uncapped(num, den) == num

\* line 924: min(confidence, 1.0)
capped_confidence(num, den) == Min(num, den)

\* round(x, 2) of num/den, in hundredths: the nearest hundredth; an exact tie
\* falls to either side, as the binary value of the float decides
RoundHundredths(num, den) ==
    LET q == (100 * num) \div den
        r == (100 * num) % den
    IN IF 2 * r < den THEN {q}
       ELSE IF 2 * r > den THEN {q + 1}
       ELSE {q, q + 1}

\* variant of calculate_enhanced_confidence that scores a run without
\* sources 0
calculate_enhanced_confidence_zero_floor(sources, answer, query_type) ==
    IF sources = <<>> THEN {0}
    ELSE LET den == ConfidenceDen(Len(sources)) IN
         RoundHundredths(
             capped_confidence(confidence_numerator(sources, answer, query_type), den),
             den)

\* lines 880-928: the set of values the call can return
calculate_enhanced_confidence(sources, answer, query_type) ==
    IF sources = <<>> THEN {NoSourcesConfidence}
    ELSE LET den == ConfidenceDen(Len(sources)) IN
         RoundHundredths(
             capped_confidence(confidence_numerator(sources, answer, query_type), den),
             den)

(***************************************************************************)
(* Scoring harness: sources, answer and query kind are drawn from bounded  *)
(* sets and the score is computed.                                         *)
(***************************************************************************)
RelevanceOf(pattern, i) ==
    CASE pattern = "zero" -> 0
      [] pattern = "one" -> 100
      [] pattern = "alternate" -> IF i % 2 = 0 THEN 100 ELSE 0
      [] OTHER -> 5 * i

UrlOf(pattern, i) ==
    CASE pattern = "same_host" -> Url(1, i)
      [] pattern = "no_host" -> Url(0, i)
      [] pattern = "empty" -> EmptyUrl
      [] OTHER -> Url(i, i)

ConfSources(n, rel_pattern, url_pattern) ==
    [i \in 1..n |->
        [title |-> "T", url |-> UrlOf(url_pattern, i), snippet |-> <<>>,
         relevance_score |-> RelevanceOf(rel_pattern, i)]]

ConfAnswers ==
    [words : {0, 1, 250, 499, 500, 501, 10000},
     has_brackets : BOOLEAN,
     citations : {0, 1, 7, 40}]

ConfInit ==
    /\ conf_pc = "input"
    /\ conf_sources \in
          {ConfSources(n, r, u) : n \in 0..MaxSources,
                                  r \in {"zero", "one", "alternate", "ramp"},
                                  u \in {"same_host", "no_host", "empty", "distinct"}}
    /\ conf_answer \in {a \in ConfAnswers : a.citations > 0 => a.has_brackets}
    /\ conf_query_type \in {"simple", "complex"}
    /\ conf_out = 0

ConfIdle ==
    /\ conf_pc = "off"
    /\ conf_sources = <<>>
    /\ conf_answer = [words |-> 0, has_brackets |-> FALSE, citations |-> 0]
    /\ conf_query_type = "simple"
    /\ conf_out = 0

ScoreConfidence ==
    /\ conf_pc = "input"
    /\ conf_out' \in
           calculate_enhanced_confidence(conf_sources, conf_answer, conf_query_type)
    /\ conf_pc' = "scored"
    /\ UNCHANGED <<conf_sources, conf_answer, conf_query_type, fmt_vars, ext_vars, run_vars, conc_vars, cit_vars>>

ConfNext == ScoreConfidence

(***************************************************************************)
(* TouchResearchAgent: the model-backed helpers of a run.  The reply of a  *)
(* model service is an input of the helper; what the helper makes of it is *)
(* translated from its code.                                               *)
(***************************************************************************)
CannotHelpText == "I cannot help with this query."
AlternativeLabel == "Alternative:"
ReasonText == "reason"
AlternativeText == "alternative"

\* what the safety service can answer for a query (lines 427-450):
\*   ok        the call returned and the text parsed with an is_safe field
\*   is_safe   the value of that field
\*   alternative  a non-empty suggested_alternative was supplied
SafetyReplies ==
    { [ok |-> TRUE, is_safe |-> TRUE, alternative |-> FALSE],
      [ok |-> TRUE, is_safe |-> FALSE, alternative |-> FALSE],
      [ok |-> TRUE, is_safe |-> FALSE, alternative |-> TRUE],
      [ok |-> FALSE, is_safe |-> FALSE, alternative |-> FALSE] }

\* lines 388-463: <<is_safe, message>>
sanitize_input(query, reply) ==
    IF ~reply.ok THEN <<TRUE, query>>
    ELSE IF reply.is_safe THEN <<TRUE, query>>
    ELSE <<FALSE,
           <<CannotHelpText, SP, ReasonText>>
               \o (IF reply.alternative
                   THEN <<NL, NL, AlternativeLabel, SP, AlternativeText>>
                   ELSE <<>>)>>

\* what the classifier service can answer (lines 269-291):
\*   ok              the call returned and the text parsed
\*   classification  the value of the field, "" when the field is missing
\*   decomposition   "true", "false" or "absent"
\*   confidence      "number", "absent" or "text" (a value that is no number)
ClassifierReplies ==
    { [ok |-> FALSE, classification |-> "", decomposition |-> "absent", confidence |-> "absent"],
      [ok |-> TRUE, classification |-> "", decomposition |-> "false", confidence |-> "number"],
      [ok |-> TRUE, classification |-> "medium", decomposition |-> "true", confidence |-> "number"],
      [ok |-> TRUE, classification |-> "simple", decomposition |-> "absent", confidence |-> "absent"],
      [ok |-> TRUE, classification |-> "simple", decomposition |-> "false", confidence |-> "text"],
      [ok |-> TRUE, classification |-> "complex", decomposition |-> "true", confidence |-> "number"] }

FallbackConfidence == 50
DefaultClassifierConfidence == 70
ReplyConfidence == 90

\* variant of classify_query_with_llm that passes a reply through whenever
\* the call returned and the text parsed
classify_query_with_llm_unvalidated(reply) ==
    IF ~reply.ok
    THEN [classification |-> "complex", confidence |-> FallbackConfidence,
          confidence_is_number |-> TRUE, requires_decomposition |-> TRUE,
          fallback |-> TRUE]
    ELSE [classification |-> reply.classification,
          confidence |-> ReplyConfidence,
          confidence_is_number |-> reply.confidence # "text",
          requires_decomposition |-> reply.decomposition = "true",
          fallback |-> FALSE]

\* lines 242-307; confidence is in hundredths, confidence_is_number tells if
\* the reply gave a value that formats as a number
classify_query_with_llm(reply) ==
    IF ~reply.ok \/ reply.classification \notin {"simple", "complex"}
    THEN [classification |-> "complex", confidence |-> FallbackConfidence,
          confidence_is_number |-> TRUE, requires_decomposition |-> TRUE,
          fallback |-> TRUE]
    ELSE [classification |-> reply.classification,
          confidence |-> IF reply.confidence = "absent"
                         THEN DefaultClassifierConfidence ELSE ReplyConfidence,
          confidence_is_number |-> reply.confidence # "text",
          requires_decomposition |->
              IF reply.decomposition = "absent"
              THEN reply.classification = "complex"
              ELSE reply.decomposition = "true",
          fallback |-> FALSE]

NoClassification ==
    [classification |-> "", confidence |-> 0, confidence_is_number |-> TRUE,
     requires_decomposition |-> FALSE, fallback |-> FALSE]

MaxSubQuestions == 5

SubQuestion(i) == <<<<"sq1", "sq2", "sq3", "sq4", "sq5", "sq6">>[i]>>

\* what the decomposition call can answer (lines 216-231): ok = the call
\* returned and the text parsed as a list, n = the length of that list
DecomposeReplies ==
    { [ok |-> FALSE, n |-> 0], [ok |-> TRUE, n |-> 0], [ok |-> TRUE, n |-> 6] }

\* variant of decompose_complex_query that returns the parsed list whatever
\* its length
decompose_complex_query_uncapped(query, reply) ==
    IF reply.ok THEN [i \in 1..reply.n |-> SubQuestion(i)] ELSE <<query>>

\* lines 187-240
decompose_complex_query(query, reply) ==
    IF reply.ok /\ reply.n > 0
    THEN Take([i \in 1..reply.n |-> SubQuestion(i)], MaxSubQuestions)
    ELSE <<query>>

(***************************************************************************)
(* Citations                                                               *)
(***************************************************************************)
CiteTokens == {"[1]", "[2]", "[3]", "[4]", "[5]", "[6]", "[7]", "[8]"}
CiteToken(n) == <<"[1]", "[2]", "[3]", "[4]", "[5]", "[6]", "[7]", "[8]">>[n]

\* index of the first ". " of s, 0 when there is none
RECURSIVE FirstSentenceEnd(_, _)
FirstSentenceEnd(s, i) ==
    IF i + 1 > Len(s) THEN 0
    ELSE IF s[i] = "." /\ s[i + 1] = SP THEN i
    ELSE FirstSentenceEnd(s, i + 1)

\* answer.split('. ')
RECURSIVE SplitSentences(_)
SplitSentences(s) ==
    LET k == FirstSentenceEnd(s, 1) IN
    IF k = 0 THEN <<s>>
    ELSE <<SubSeq(s, 1, k - 1)>> \o SplitSentences(SubSeq(s, k + 2, Len(s)))

\* '. '.join(sentences)
RECURSIVE JoinSentences(_)
JoinSentences(sentences) ==
    IF sentences = <<>> THEN <<>>
    ELSE IF Len(sentences) = 1 THEN sentences[1]
    ELSE sentences[1] \o <<".", SP>> \o JoinSentences(Tail(sentences))

\* sentence.strip().endswith(']')
EndsWithBracket(sentence) ==
    LET t == Strip(sentence) IN t # <<>> /\ t[Len(t)] \in (CiteTokens \cup {"]"})

MinCitedSentenceLen == 30

\* variant of cited_sentence that marks every long sentence with the next
\* source in turn
cited_sentence_every(sentence, i, num_sources) ==
    IF /\ num_sources > 0
       /\ CharLen(sentence) > MinCitedSentenceLen
       /\ ~EndsWithBracket(sentence)
    THEN sentence \o <<SP, CiteToken((i % num_sources) + 1)>>
    ELSE sentence

\* lines 576-582: sentence number i (from 0) with its marker when it gets one
cited_sentence(sentence, i, num_sources) ==
    IF /\ i % 3 = 0
       /\ num_sources > 0
       /\ CharLen(sentence) > MinCitedSentenceLen
       /\ ~EndsWithBracket(sentence)
    THEN sentence \o <<SP, CiteToken(Min(((i \div 3) % num_sources) + 1, num_sources))>>
    ELSE sentence

\* lines 570-588
add_basic_citations(answer, num_sources) ==
    LET sentences == SplitSentences(answer) IN
    JoinSentences([k \in 1..Len(sentences) |->
                     cited_sentence(sentences[k], k - 1, num_sources)])

\* `"[" in text and "]" in text`
HasBrackets(text) ==
    \E i \in 1..Len(text) : text[i] \in (CiteTokens \cup {"[", "]"})

\* what the citation service can answer (lines 555-557): "cited" is the
\* answer with a marker added, "plain" the answer without any bracket (the
\* answer itself when it has none), "error" a failure
CitationReplies == {"cited", "plain", "error"}

WithoutBrackets(text) ==
    SelectSeq(text, LAMBDA t : t \notin (CiteTokens \cup {"[", "]"}))

\* lines 520-568
add_inline_citations(answer, sources, reply) ==
    IF sources = <<>> \/ answer = <<>> THEN answer
    ELSE IF reply = "error" THEN answer
    ELSE LET cited_answer ==
                 Strip(IF reply = "cited" THEN answer \o <<SP, CiteToken(1)>>
                       ELSE WithoutBrackets(answer))
         IN IF HasBrackets(cited_answer) THEN cited_answer
            ELSE add_basic_citations(answer, Len(sources))

(***************************************************************************)
(* Citation harness: the answer is a sequence of sentences drawn from      *)
(* three kinds, the sources and the reply of the citation service are      *)
(* drawn, and _add_inline_citations is applied.                            *)
(***************************************************************************)
\* a sentence of 100 characters, one of exactly 30 characters, and a long
\* one that already ends in a marker
SentenceKinds ==
    { <<LongWord>>,
      <<NoAnswerText, "a", "a", "a", "a", "a", "a">>,
      <<LongWord, SP, "[1]">> }

CitAnswers == {JoinSentences(ss) : ss \in SeqsUpTo(SentenceKinds, MaxSentences)}

CitSources(n) == [i \in 1..n |-> SourceOf(Item("T", U(i), "num", 90))]

CitInput(answer, sources, reply) ==
    [answer |-> answer, sources |-> sources, reply |-> reply]

CitIdle ==
    /\ cit_pc = "off"
    /\ cit_in = CitInput(<<>>, <<>>, "error")
    /\ cit_out = <<>>

CitInit ==
    /\ cit_pc = "input"
    /\ cit_in \in {CitInput(a, CitSources(n), reply) :
                      a \in CitAnswers, n \in 0..MaxCitedSources,
                      reply \in CitationReplies}
    /\ cit_out = <<>>

AddInlineCitations ==
    /\ cit_pc = "input"
    /\ cit_out' = add_inline_citations(cit_in.answer, cit_in.sources, cit_in.reply)
    /\ cit_pc' = "cited"
    /\ UNCHANGED <<cit_in, fmt_vars, ext_vars, conf_vars, run_vars, conc_vars>>

CitNext == AddInlineCitations

(***************************************************************************)
(* TouchResearchAgent._sanitize_web_content on token text: injection       *)
(* phrases are words of their own.                                         *)
(***************************************************************************)
InjectionWord == "ignore previous instructions"
ContentFiltered == "[CONTENT_FILTERED]"

\* lines 348-349
RECURSIVE FilterInjections(_)
FilterInjections(s) ==
    IF s = <<>> THEN <<>>
    ELSE <<IF Head(s) = InjectionWord THEN ContentFiltered ELSE Head(s)>>
             \o FilterInjections(Tail(s))

\* line 352: re.sub(r'\s+', ' ', content)
RECURSIVE CollapseSpaces(_)
CollapseSpaces(s) ==
    IF s = <<>> THEN <<>>
    ELSE IF IsSpace(Head(s)) THEN <<SP>> \o CollapseSpaces(LStrip(s))
    ELSE <<Head(s)>> \o CollapseSpaces(Tail(s))

\* lines 309-386
sanitize_web_content(content) == Strip(CollapseSpaces(FilterInjections(content)))

\* lines 672-680
sanitized_sources_of(raw_sources) ==
    [i \in 1..Len(raw_sources) |->
        [raw_sources[i] EXCEPT !.snippet = sanitize_web_content(@)]]

(***************************************************************************)
(* Output moderation                                                       *)
(***************************************************************************)
ModerationRefusal ==
    "I apologize, but I cannot provide this response due to content policy concerns."
PolicyRefusal ==
    "I apologize, but I cannot provide a response to this query due to content policy concerns."
FilteredText == "filtered response"

\* what the moderation service can answer (lines 493-506):
\*   ok                  the call returned and the text parsed
\*   is_safe             moderation_result.get("is_safe", True)
\*   requires_filtering  moderation_result.get("requires_filtering", False)
\*   filtered_response   the replacement text, <<>> when none is supplied
\*   has_flag            the reply holds an is_safe field
ModerationReply(ok, is_safe, requires_filtering, filtered_response) ==
    [ok |-> ok, is_safe |-> is_safe, requires_filtering |-> requires_filtering,
     filtered_response |-> filtered_response, has_flag |-> TRUE]

\* a parsed reply without the is_safe field: line 503 reads it as True
ModerationReplyWithoutFlag(requires_filtering, filtered_response) ==
    [ModerationReply(TRUE, TRUE, requires_filtering, filtered_response)
        EXCEPT !.has_flag = FALSE]

ModerationReplies ==
    { ModerationReply(FALSE, TRUE, FALSE, <<>>),
      ModerationReply(TRUE, TRUE, FALSE, <<>>),
      ModerationReply(TRUE, FALSE, FALSE, <<>>),
      ModerationReply(TRUE, FALSE, FALSE, <<FilteredText>>),
      ModerationReply(TRUE, FALSE, TRUE, <<FilteredText>>),
      ModerationReplyWithoutFlag(TRUE, <<>>) }

\* variant of moderate_final_output that takes the replacement text whenever
\* one is supplied
moderate_final_output_any_replacement(answer, reply) ==
    IF ~reply.ok THEN <<TRUE, answer>>
    ELSE IF reply.is_safe /\ ~reply.requires_filtering THEN <<TRUE, answer>>
    ELSE IF reply.filtered_response # <<>> THEN <<TRUE, reply.filtered_response>>
    ELSE <<FALSE, <<ModerationRefusal>>>>

\* lines 465-518: <<is_safe_output, text>>
moderate_final_output(answer, reply) ==
    IF ~reply.ok THEN <<TRUE, answer>>
    ELSE IF reply.is_safe /\ ~reply.requires_filtering THEN <<TRUE, answer>>
    ELSE IF reply.requires_filtering /\ reply.filtered_response # <<>>
         THEN <<TRUE, reply.filtered_response>>
    ELSE <<FALSE, <<ModerationRefusal>>>>

(***************************************************************************)
(* TouchResearchAgent.research_query: one run                              *)
(***************************************************************************)
PyNone == [none |-> TRUE, items |-> <<>>]
PyList(items) == [none |-> FALSE, items |-> items]

ShortQuery == <<"h", "i">>
LongQuery == <<"w", "h", "y", SP, "x">>
Queries == {ShortQuery, LongQuery}

QueryClassification(kind, type, confidence, subs) ==
    [kind |-> kind, type |-> type, confidence |-> confidence, sub_questions |-> subs]

NoResult ==
    [returned |-> FALSE, answer |-> <<>>, sources |-> <<>>,
     research_steps |-> PyList(<<>>), confidence_score |-> 0,
     query_classification |-> QueryClassification("none", "", 0, <<>>)]

\* variant of BlockedResult that scores a blocked query like a run without
\* sources
BlockedResultScored(message) ==
    [returned |-> TRUE, answer |-> message, sources |-> <<>>,
     research_steps |-> PyList(<<>>), confidence_score |-> 10,
     query_classification |-> QueryClassification("blocked", "", 0, <<>>)]

\* lines 600-607
BlockedResult(message) ==
    [returned |-> TRUE, answer |-> message, sources |-> <<>>,
     research_steps |-> PyList(<<>>), confidence_score |-> 0,
     query_classification |-> QueryClassification("blocked", "", 0, <<>>)]

ErrorPrefix == "I encountered an error while researching your query:"
ErrorAdvice ==
    "Please try rephrasing your question or breaking it into smaller parts."

\* lines 736-743
ErrorResult(e) ==
    [returned |-> TRUE, answer |-> <<ErrorPrefix, SP, e, ".", SP, ErrorAdvice>>,
     sources |-> <<>>, research_steps |-> PyList(<<>>), confidence_score |-> 0,
     query_classification |-> QueryClassification("error", "", 0, <<>>)]

\* the exceptions a run can meet
CallbackError == "on_step failed"
FormatCodeError == "Unknown format code 'f' for object of type 'str'"
AgentError == "agent executor failed"
NoRecoveryMethod ==
    "'TouchResearchAgent' object has no attribute '_recover_from_max_iterations'"

RunStages ==
    {"on_step", "classification", "tool_loop", "tool", "recovery"}

\* variant of InTryBlock in which the try statement starts after the first
\* progress event
InTryBlockLate(stage) == stage # "on_step"

\* lines 609-731: every statement after the safety check is inside the try
InTryBlock(stage) == stage \in RunStages

\* an exception of `stage` leaves the run: lines 731-743 when the try block
\* covers the stage, otherwise it reaches the caller
Raise(stage, e) ==
    /\ fault' = stage
    /\ IF InTryBlock(stage)
       THEN pc' = "done" /\ result' = ErrorResult(e)
       ELSE pc' = "raised" /\ result' = result

\* the ways a call of on_step can end: there is no callback, the event is
\* delivered, or the callback raises
OnStepOutcomes == IF has_on_step THEN {"delivered", "raised"} ELSE {"absent"}

\* StepCounter.next() (lines 27-29) as called for a progress event
CountAfter(outcome) == IF outcome = "absent" THEN count ELSE count + 1

\* an event as on_step receives it: its number, who sent it (the pipeline of
\* research_query or the tool-end callback) and its sources_found, 0 where the
\* event has none
ProgressEvent(step_number, source, sources_found) ==
    [step_number |-> step_number, source |-> source, sources_found |-> sources_found]

ProgressAfter(outcome, source) ==
    IF outcome = "delivered"
    THEN Append(progress, ProgressEvent(count + 1, source, 0))
    ELSE progress

\* variant of stage_after_safety_check in which the run goes on whatever the
\* safety check ruled
stage_after_safety_check_always_on(is_safe) == "classify"

\* lines 599-609: a rejected query returns at once, an admitted one enters
\* the try block
stage_after_safety_check(is_safe) == IF is_safe THEN "classify" ELSE "done"

\* line 598-607
SafetyCheck ==
    /\ entry = "research_query"
    /\ pc = "start"
    /\ \E reply \in SafetyReplies :
          LET r == sanitize_input(cur_query, reply) IN
          /\ safety' = [checked |-> TRUE, is_safe |-> r[1]]
          /\ pc' = stage_after_safety_check(r[1])
          /\ result' = IF r[1] THEN result ELSE BlockedResult(r[2])
    /\ calls' = calls \cup {"safety_llm"}
    /\ UNCHANGED <<entry, cur_query, has_on_step, count, progress, classification,
                   sub_questions, iterations, steps, exhausted, cur_answer, cur_sources,
                   moderation, fault, stream_pc, events,
                   fmt_vars, ext_vars, conf_vars, conc_vars, cit_vars,
                   prompted, conversations, http_response>>

\* lines 609-627: first progress event, classification, the two prints
Classify ==
    /\ pc = "classify"
    /\ \E outcome \in OnStepOutcomes, reply \in ClassifierReplies :
          LET c == classify_query_with_llm(reply) IN
          /\ count' = CountAfter(outcome)
          /\ progress' = ProgressAfter(outcome, "pipeline")
          /\ IF outcome = "raised"
             THEN /\ Raise("on_step", CallbackError)
                  /\ UNCHANGED <<classification, calls>>
             ELSE /\ classification' = c
                  /\ calls' = calls \cup {"classifier_llm"}
                  /\ IF ~c.confidence_is_number
                     THEN Raise("classification", FormatCodeError)
                     ELSE /\ pc' = IF c.classification = "complex"
                                      /\ c.requires_decomposition
                                   THEN "decompose" ELSE "research"
                          /\ UNCHANGED <<result, fault>>
    /\ UNCHANGED <<entry, cur_query, has_on_step, safety, sub_questions, iterations,
                   steps, exhausted, cur_answer, cur_sources, moderation, stream_pc,
                   events, fmt_vars, ext_vars, conf_vars, conc_vars, cit_vars,
                   prompted, conversations, http_response>>

\* lines 627-636
Decompose ==
    /\ pc = "decompose"
    /\ \E outcome \in OnStepOutcomes, reply \in DecomposeReplies :
          /\ count' = CountAfter(outcome)
          /\ progress' = ProgressAfter(outcome, "pipeline")
          /\ IF outcome = "raised"
             THEN /\ Raise("on_step", CallbackError)
                  /\ UNCHANGED <<sub_questions, calls>>
             ELSE /\ sub_questions' = decompose_complex_query(cur_query, reply)
                  /\ calls' = calls \cup {"classifier_llm"}
                  /\ pc' = "research"
                  /\ UNCHANGED <<result, fault>>
    /\ UNCHANGED <<entry, cur_query, has_on_step, safety, classification, iterations,
                   steps, exhausted, cur_answer, cur_sources, moderation, stream_pc,
                   events, fmt_vars, ext_vars, conf_vars, conc_vars, cit_vars,
                   prompted, conversations, http_response>>

(***************************************************************************)
(* The tool loop: AgentExecutor.ainvoke with the budget of the chosen      *)
(* executor.  Which tool the model picks, what the tool returns and when   *)
(* the model stops are inputs.                                             *)
(***************************************************************************)
SimpleMaxIterations == 5
SimpleMaxExecutionTime == 30
ComplexMaxIterations == 20
ComplexMaxExecutionTime == 90

\* variant of BudgetProfile that gives every query the complex budget
BudgetProfileComplex(query_type) ==
    [max_iterations |-> ComplexMaxIterations,
     max_execution_time |-> ComplexMaxExecutionTime]

\* variant of BudgetProfile that gives every query the simple budget
BudgetProfileSimple(query_type) ==
    [max_iterations |-> SimpleMaxIterations,
     max_execution_time |-> SimpleMaxExecutionTime]

\* line 639 with lines 141-149 and 177-185
BudgetProfile(query_type) ==
    IF query_type = "simple"
    THEN [max_iterations |-> SimpleMaxIterations,
          max_execution_time |-> SimpleMaxExecutionTime]
    ELSE [max_iterations |-> ComplexMaxIterations,
          max_execution_time |-> ComplexMaxExecutionTime]

\* lines 638-657: third progress event, then the executor starts
StartResearch ==
    /\ pc = "research"
    /\ \E outcome \in OnStepOutcomes :
          /\ count' = CountAfter(outcome)
          /\ progress' = ProgressAfter(outcome, "pipeline")
          /\ IF outcome = "raised"
             THEN Raise("on_step", CallbackError)
             ELSE pc' = "agent" /\ UNCHANGED <<result, fault>>
    /\ UNCHANGED <<entry, cur_query, has_on_step, safety, classification,
                   sub_questions, iterations, steps, exhausted, cur_answer, cur_sources,
                   moderation, calls, stream_pc, events,
                   fmt_vars, ext_vars, conf_vars, conc_vars, cit_vars,
                   prompted, conversations, http_response>>

SearchHits ==
    <<[Item("T", U(1), "num", 90) EXCEPT !.snippet = <<"a", SP, SP, InjectionWord>>],
      Item("T", U(2), "absent", 0),
      Item("", U(3), "num", 90)>>

\* how the provider of a tool behaves at one call
ProviderOutcomes == {"ok", "provider_error", "no_api_key", "timeout"}

\* an exception that leaves a tool
RaisedObs == [type |-> "raised", items |-> <<>>, text |-> <<>>]
ToolError == "tool failed"

\* variant of web_search_run without the try statement of lines 16-26
web_search_run_unguarded(outcome) ==
    IF outcome = "ok" THEN ListObs(SearchHits) ELSE RaisedObs

\* web_search.py lines 14-26: the results, [] on any exception
web_search_run(outcome) ==
    IF outcome = "ok" THEN ListObs(SearchHits) ELSE ListObs(<<>>)

ScrapeErrorText == "Error scraping"

\* web_search.py lines 79-100: the page text, an error text on any exception
\* (there is no API key to miss)
web_scrape_run(outcome) ==
    IF outcome \in {"ok", "no_api_key"} THEN TextObs(<<LongWord>>)
    ELSE TextObs(<<ScrapeErrorText>>)

\* what a tool can return; the provider may fail at the first call of a run
RunObservations(tool) ==
    {IF tool = "web_search" THEN web_search_run(o) ELSE web_scrape_run(o) :
        o \in IF steps = <<>> THEN ProviderOutcomes ELSE {"ok"}}

\* the tool-end callbacks whose delivery failed so far
ToolCallbackFailures ==
    Len(steps) - Cardinality({i \in 1..Len(progress) : progress[i].source = "tool"})

\* lines 44-48 and 820-824: len(output) of a list, 1 for a non-empty string.
\* (An agent library that hands the callback str(output) makes the first
\* case the second.)
sources_found_of(output) ==
    IF output.type = "list" THEN Len(output.items)
    ELSE IF output.text # <<>> THEN 1 ELSE 0

\* how many tools the model asks for in one iteration: the tools agent of
\* create_openai_tools_agent may return several tool calls at once (here: one
\* call of either tool, or two searches)
PlanSizes(tool) == IF tool = "web_search" THEN {1, 2} ELSE {1}

\* StreamingStepCallback.on_tool_end (lines 37-60), once per tool of the
\* iteration: the number is taken first, a failure of the delivery is
\* swallowed; without on_step every delivery fails.  The deliveries that
\* fail are the first ones of a run.
ToolEndOutcomes(n) ==
    {o \in [1..n -> {"delivered", "raised"}] :
        LET raised == Cardinality({i \in 1..n : o[i] = "raised"}) IN
        IF has_on_step
        THEN /\ ToolCallbackFailures + raised <= MaxCallbackFailures
             /\ raised > 0 => ToolCallbackFailures = Len(steps)
             /\ \A i \in 2..n : o[i] = "raised" => o[i - 1] = "raised"
        ELSE raised = n}

\* variant of ToolEvents in which the tools of one iteration read the same
\* number
RECURSIVE ToolEventsSameNumber(_, _, _)
ToolEventsSameNumber(outcomes, output, i) ==
    IF i > Len(outcomes) THEN <<>>
    ELSE (IF outcomes[i] = "delivered"
          THEN <<ProgressEvent(count + 1, "tool", sources_found_of(output))>>
          ELSE <<>>) \o ToolEventsSameNumber(outcomes, output, i + 1)

\* the events of the tools of one iteration that reached on_step
RECURSIVE ToolEvents(_, _, _)
ToolEvents(outcomes, output, i) ==
    IF i > Len(outcomes) THEN <<>>
    ELSE (IF outcomes[i] = "delivered"
          THEN <<ProgressEvent(count + i, "tool", sources_found_of(output))>>
          ELSE <<>>) \o ToolEvents(outcomes, output, i + 1)

\* the external text of an observation: the snippets of a result list, the
\* text of a fetched page
ObservationTexts(output) ==
    IF output.type = "list"
    THEN {output.items[i].snippet : i \in 1..Len(output.items)}
    ELSE {output.text}

\* external text as a model prompt holds it: which service is prompted, the
\* text, and whether _sanitize_web_content was applied to it before
Prompted(service, text, sanitized) ==
    [service |-> service, text |-> text, sanitized |-> sanitized]

\* a model call of the executor: the scratchpad holds every observation so
\* far as the tool returned it (lines 653-657; nothing is applied to an
\* observation between the tool and the next prompt)
ScratchpadPrompt(intermediate_steps) ==
    {Prompted("llm", t, FALSE) :
        t \in UNION {ObservationTexts(intermediate_steps[i][2]) :
                        i \in 1..Len(intermediate_steps)}}

\* lines 528-548: the citation prompt holds json.dumps(source_map) with the
\* snippets of the sanitized sources
CitationPrompt(sources) ==
    {Prompted("citation_llm", sources[i].snippet, TRUE) : i \in 1..Len(sources)}

\* one iteration of the loop: the model picks its tools, each tool runs and
\* its callback fires, the steps are recorded; an exception that left a tool
\* would leave the executor too
AgentToolCall ==
    /\ pc = "agent"
    /\ iterations < BudgetProfile(classification.classification).max_iterations
    /\ \E tool \in {"web_search", "web_scrape"} :
          \E n \in PlanSizes(tool), obs \in RunObservations(tool) :
          \E outcomes \in ToolEndOutcomes(n) :
             /\ Len(steps) + n <= MaxToolCalls
             /\ calls' = calls \cup {"llm", tool}
             /\ IF obs.type = "raised"
                THEN /\ Raise("tool", ToolError)
                     /\ UNCHANGED <<steps, progress, count>>
                ELSE /\ steps' = steps \o [i \in 1..n |-> <<ToolAction(tool), obs>>]
                     /\ progress' = progress \o ToolEvents(outcomes, obs, 1)
                     /\ count' = count + n
                     /\ UNCHANGED <<pc, result, fault>>
    /\ iterations' = iterations + 1
    /\ prompted' = prompted \cup ScratchpadPrompt(steps)
    /\ UNCHANGED <<entry, cur_query, has_on_step, safety, classification,
                   sub_questions, exhausted, cur_answer, cur_sources, moderation,
                   stream_pc, events, fmt_vars, ext_vars, conf_vars, conc_vars, cit_vars,
                   conversations, http_response>>

\* lines 799-833: the local list research_steps of the conversion, one
\* summary per step, numbered from 1
research_steps_built(intermediate_steps) ==
    [i \in 1..Len(intermediate_steps) |->
        [step_number |-> i,
         tool |-> intermediate_steps[i][1].tool,
         sources_found |-> sources_found_of(intermediate_steps[i][2])]]

\* lines 797-837: the function builds research_steps and ends without a
\* return statement, so the caller gets None
convert_steps_to_research_steps(intermediate_steps) == PyNone

AgentOutputs == { <<LongWord, ".", SP, "a">> }

\* the model emits a final answer; lines 659-682 follow
AgentFinish ==
    /\ pc = "agent"
    /\ iterations < BudgetProfile(classification.classification).max_iterations
    /\ \E output \in AgentOutputs : cur_answer' = output
    /\ cur_sources' = sanitized_sources_of(extract_sources_from_steps(steps))
    /\ calls' = calls \cup {"llm"}
    /\ prompted' = prompted \cup ScratchpadPrompt(steps)
    /\ pc' = "cite"
    /\ UNCHANGED <<entry, cur_query, has_on_step, count, progress, safety,
                   classification, sub_questions, iterations, steps, exhausted,
                   moderation, result, fault, stream_pc, events,
                   fmt_vars, ext_vars, conf_vars, conc_vars, cit_vars,
                   conversations, http_response>>

\* what the executor returns as output when a budget ends the loop: the text
\* depends on the release of the agent library, older ones say "max
\* iterations", later ones "iteration limit or time limit"
StopOutputs == {<<MarkerWord, ".">>, <<LimitStopText, ".">>}

\* the iteration or the time budget ends the loop and the executor returns
\* its stop text; lines 659-682 follow.  When the text holds the "max
\* iterations" marker, line 665 calls _recover_from_max_iterations, which the
\* class does not define.
AgentExhausted ==
    /\ pc = "agent"
    /\ iterations > 0    \* the loop is entered with no time elapsed
    /\ exhausted' =
          IF iterations >= BudgetProfile(classification.classification).max_iterations
          THEN "iterations" ELSE "time"
    /\ \E output \in StopOutputs :
          /\ cur_answer' = output
          /\ IF Contains(output, <<MarkerWord>>)
             THEN /\ Raise("recovery", NoRecoveryMethod)
                  /\ UNCHANGED cur_sources
             ELSE /\ cur_sources' =
                         sanitized_sources_of(extract_sources_from_steps(steps))
                  /\ pc' = "cite"
                  /\ UNCHANGED <<result, fault>>
    /\ UNCHANGED <<entry, cur_query, has_on_step, count, progress, safety,
                   classification, sub_questions, iterations, steps,
                   moderation, calls, stream_pc, events,
                   fmt_vars, ext_vars, conf_vars, conc_vars, cit_vars,
                   prompted, conversations, http_response>>

\* the executor raises (a failure of the model service during the loop)
AgentFails ==
    /\ pc = "agent"
    /\ calls' = calls \cup {"llm"}
    /\ prompted' = prompted \cup ScratchpadPrompt(steps)
    /\ Raise("tool_loop", AgentError)
    /\ UNCHANGED <<entry, cur_query, has_on_step, count, progress, safety,
                   classification, sub_questions, iterations, steps, exhausted,
                   cur_answer, cur_sources, moderation, stream_pc, events,
                   fmt_vars, ext_vars, conf_vars, conc_vars, cit_vars,
                   conversations, http_response>>

\* lines 684-695: fourth progress event, citations, formatting
AddCitations ==
    /\ pc = "cite"
    /\ \E outcome \in OnStepOutcomes, reply \in CitationReplies :
          /\ count' = CountAfter(outcome)
          /\ progress' = ProgressAfter(outcome, "pipeline")
          /\ IF outcome = "raised"
             THEN /\ Raise("on_step", CallbackError)
                  /\ UNCHANGED <<cur_answer, calls, prompted>>
             ELSE /\ cur_answer' = ensure_markdown_formatting(
                                   add_inline_citations(cur_answer, cur_sources, reply),
                                   cur_sources)
                  /\ calls' = IF cur_sources = <<>> \/ cur_answer = <<>>
                              THEN calls ELSE calls \cup {"citation_llm"}
                  /\ prompted' = IF cur_sources = <<>> \/ cur_answer = <<>>
                                 THEN prompted
                                 ELSE prompted \cup CitationPrompt(cur_sources)
                  /\ pc' = "moderate"
                  /\ UNCHANGED <<result, fault>>
    /\ UNCHANGED <<entry, cur_query, has_on_step, safety, classification,
                   sub_questions, iterations, steps, exhausted, cur_sources,
                   moderation, stream_pc, events, fmt_vars, ext_vars, conf_vars, conc_vars, cit_vars,
                   conversations, http_response>>

\* number of maximal runs of tokens that are not whitespace
RECURSIVE WordRuns(_, _)
WordRuns(s, in_word) ==
    IF s = <<>> THEN 0
    ELSE IF IsSpace(Head(s)) THEN WordRuns(Tail(s), FALSE)
    ELSE (IF in_word THEN 0 ELSE 1) + WordRuns(Tail(s), TRUE)

\* the spaces inside a word token
InnerSpaces(t) ==
    CASE t = PolicyRefusal -> 15
      [] t = FormatErrorNote -> 7
      [] t = ResearchResultsWord -> 1
      [] t = FilteredText -> 1
      [] t = LimitStopText -> 8
      [] t = InjectionWord -> 2
      [] OTHER -> 0

RECURSIVE SumInnerSpaces(_)
SumInnerSpaces(s) ==
    IF s = <<>> THEN 0 ELSE InnerSpaces(Head(s)) + SumInnerSpaces(Tail(s))

\* what _calculate_enhanced_confidence reads of an answer: len(answer.split()),
\* "[" in answer and "]" in answer, len(re.findall(r'\[\d+\]', answer))
AnswerFeatures(text) ==
    [words |-> WordRuns(text, FALSE) + SumInnerSpaces(text),
     has_brackets |-> HasBrackets(text),
     citations |-> Cardinality({i \in 1..Len(text) : text[i] \in CiteTokens})]

\* lines 700-702: <<final_answer, sanitized_sources>> after the output check
moderated(formatted_answer, sanitized_sources, reply) ==
    LET m == moderate_final_output(formatted_answer, reply) IN
    IF ~m[1] THEN <<<<PolicyRefusal>>, <<>>>> ELSE <<m[2], sanitized_sources>>

\* lines 717-729
RunResult(final_answer, final_sources, confidence) ==
    [returned |-> TRUE, answer |-> final_answer, sources |-> final_sources,
     research_steps |-> convert_steps_to_research_steps(steps),
     confidence_score |-> confidence,
     query_classification |->
         QueryClassification("classified", classification.classification,
                             classification.confidence, sub_questions)]

\* lines 697-729: output check, the last two progress events, the result
ModerateAndReturn ==
    /\ pc = "moderate"
    /\ \E reply \in ModerationReplies, delivered \in 0..2 :
          LET m == moderated(cur_answer, cur_sources, reply) IN
          /\ has_on_step \/ delivered = 2
          /\ moderation' = [checked |-> TRUE, reply |-> reply]
          /\ cur_answer' = m[1]
          /\ cur_sources' = m[2]
          /\ count' = IF ~has_on_step THEN count
                      ELSE IF delivered = 0 THEN count + 1 ELSE count + 2
          /\ progress' =
                IF ~has_on_step THEN progress
                ELSE progress \o
                       [i \in 1..delivered |-> ProgressEvent(count + i, "pipeline", 0)]
          /\ IF has_on_step /\ delivered < 2
             THEN Raise("on_step", CallbackError)
             ELSE /\ \E confidence \in calculate_enhanced_confidence(
                            m[2], AnswerFeatures(m[1]), classification.classification) :
                        result' = RunResult(m[1], m[2], confidence)
                  /\ pc' = "done"
                  /\ fault' = fault
    /\ calls' = calls \cup {"safety_llm"}
    /\ UNCHANGED <<entry, cur_query, has_on_step, safety, classification,
                   sub_questions, iterations, steps, exhausted, stream_pc, events,
                   fmt_vars, ext_vars, conf_vars, conc_vars, cit_vars,
                   prompted, conversations, http_response>>

(***************************************************************************)
(* POST /api/research                                                      *)
(***************************************************************************)
\* main.py line 248: the id of the request, the caller's or a fresh uuid
RequestConversationId == "c1"

\* nothing was answered yet
NoResponse ==
    [status |-> 0, error |-> "", answer |-> <<>>, research_steps |-> PyList(<<>>),
     conversation_id |-> ""]

\* schemas.py lines 22-28 as far as the fields of a result can break them:
\* research_steps must be a list
ValidQueryResponse(r) == ~r.research_steps.none

\* main.py lines 260-269
QueryResponse(r, conversation_id) ==
    [status |-> 200, error |-> "", answer |-> r.answer,
     research_steps |-> r.research_steps, conversation_id |-> conversation_id]

\* main.py lines 271-279
ErrorResponse(conversation_id) ==
    [status |-> 500, error |-> "Research Failed", answer |-> <<>>,
     research_steps |-> PyList(<<>>), conversation_id |-> conversation_id]

\* main.py lines 253-258: conversations[conversation_id] = {...}
StoreConversation(store, conversation_id, q, response) ==
    {c \in store : c.id # conversation_id}
        \cup {[id |-> conversation_id, query |-> q, response |-> response]}

\* main.py lines 243-279 after the agent returned (line 251 calls it without
\* on_step): the conversation is stored, then the response is built and
\* validated; a validation error is answered with the error object
PostResearch ==
    /\ entry = "research_query"
    /\ ~has_on_step
    /\ pc = "done"
    /\ http_response = NoResponse
    /\ conversations' = StoreConversation(conversations, RequestConversationId,
                                          cur_query, result)
    /\ http_response' = IF ValidQueryResponse(result)
                        THEN QueryResponse(result, RequestConversationId)
                        ELSE ErrorResponse(RequestConversationId)
    /\ UNCHANGED <<entry, cur_query, has_on_step, pc, count, progress, safety,
                   classification, sub_questions, iterations, steps, exhausted,
                   cur_answer, cur_sources, moderation, result, fault, calls,
                   stream_pc, events, prompted, fmt_vars, ext_vars, conf_vars, conc_vars, cit_vars>>

(***************************************************************************)
(* GET /api/research/stream                                                *)
(***************************************************************************)
\* main.py lines 281-299: the endpoint answers with a StreamingResponse over
\* research_query_stream(query)
StreamResearch ==
    /\ entry = "stream"
    /\ stream_pc = "requested"
    /\ stream_pc' = "open"
    /\ UNCHANGED <<entry, cur_query, has_on_step, pc, count, progress, safety,
                   classification, sub_questions, iterations, steps, exhausted,
                   cur_answer, cur_sources, moderation, result, fault, calls, events,
                   fmt_vars, ext_vars, conf_vars, conc_vars, cit_vars,
                   prompted, conversations, http_response>>

\* main.py lines 38-46: _sanitize_input is a coroutine function and is called
\* without await, so line 43 unpacks a coroutine object and raises TypeError
\* before the first event; the statement is outside the try block of line 51,
\* the generator ends with the exception and the response ends with it.  The
\* coroutine is never started: no service is called.
ResearchQueryStream ==
    /\ entry = "stream"
    /\ stream_pc = "open"
    /\ stream_pc' = "aborted"
    /\ fault' = "stream_safety_check"
    /\ UNCHANGED <<entry, cur_query, has_on_step, pc, count, progress, safety,
                   classification, sub_questions, iterations, steps, exhausted,
                   cur_answer, cur_sources, moderation, result, calls, events,
                   fmt_vars, ext_vars, conf_vars, conc_vars, cit_vars,
                   prompted, conversations, http_response>>

RunInit ==
    /\ entry \in {"research_query", "stream"}
    /\ cur_query \in (IF entry = "stream" THEN Queries ELSE {LongQuery})
    /\ has_on_step \in (IF entry = "research_query" THEN BOOLEAN ELSE {FALSE})
    /\ pc = IF entry = "research_query" THEN "start" ELSE "idle"
    /\ count = 0
    /\ progress = <<>>
    /\ safety = [checked |-> FALSE, is_safe |-> FALSE]
    /\ classification = NoClassification
    /\ sub_questions = <<>>
    /\ iterations = 0
    /\ steps = <<>>
    /\ exhausted = ""
    /\ cur_answer = <<>>
    /\ cur_sources = <<>>
    /\ moderation = [checked |-> FALSE, reply |-> CHOOSE r \in ModerationReplies : ~r.ok]
    /\ result = NoResult
    /\ fault = ""
    /\ calls = {}
    /\ stream_pc = IF entry = "stream" THEN "requested" ELSE "none"
    /\ events = <<>>
    /\ prompted = {}
    /\ conversations = {}
    /\ http_response = NoResponse

RunIdle ==
    /\ entry = "none"
    /\ cur_query = <<>>
    /\ has_on_step = FALSE
    /\ pc = "idle"
    /\ count = 0
    /\ progress = <<>>
    /\ safety = [checked |-> FALSE, is_safe |-> FALSE]
    /\ classification = NoClassification
    /\ sub_questions = <<>>
    /\ iterations = 0
    /\ steps = <<>>
    /\ exhausted = ""
    /\ cur_answer = <<>>
    /\ cur_sources = <<>>
    /\ moderation = [checked |-> FALSE, reply |-> CHOOSE r \in ModerationReplies : ~r.ok]
    /\ result = NoResult
    /\ fault = ""
    /\ calls = {}
    /\ stream_pc = "none"
    /\ events = <<>>
    /\ prompted = {}
    /\ conversations = {}
    /\ http_response = NoResponse

(***************************************************************************)
(* Two concurrent POST /api/research requests.  The endpoint is a          *)
(* coroutine: requests interleave at every await of research_query.  They  *)
(* share the agent object (main.py line 30), whose attributes are written  *)
(* only by __init__, and the conversation store (main.py line 33).         *)
(***************************************************************************)
MaxConcTools == 2

Requests == {"r1", "r2"}

\* main.py line 248: the callers issue distinct ids
ConversationIdOf(r) == IF r = "r1" THEN RequestConversationId ELSE "c2"

CounterOwners == Requests \cup {"agent"}

\* variant of CounterOf in which the counter is an attribute of the shared
\* agent object
CounterOfAgent(r) == "agent"

\* research_agent.py line 593: step_counter = StepCounter() is a local of the
\* call, every request has its own counter
CounterOf(r) == r

\* a request: where it is, its query, the step numbers its callback drew,
\* its result, and whether it drew a number while the other request was in
\* its tool loop with numbers drawn
Request(at, q, numbers, res) ==
    [pc |-> at, query |-> q, numbers |-> numbers, result |-> res,
     overlapped |-> FALSE]

NoConcResult == [query |-> <<>>, kind |-> "none", tools |-> 0]

\* the result of a run as far as it depends on the run: whose query it
\* answers, how the run ended, how many tool invocations it made
ConcResult(q, kind, tools) == [query |-> q, kind |-> kind, tools |-> tools]

\* lines 590-607 for request r: the counter is made, the safety check rules
ConcSafetyCheck(r) ==
    /\ requests[r].pc = "received"
    /\ counters' = [counters EXCEPT ![CounterOf(r)] = 0]
    /\ \E is_safe \in BOOLEAN :
          requests' = [requests EXCEPT ![r] =
              IF is_safe
              THEN [@ EXCEPT !.pc = "agent"]
              ELSE [@ EXCEPT !.pc = "returned",
                             !.result = ConcResult(requests[r].query, "blocked", 0)]]
    /\ UNCHANGED <<run_vars, fmt_vars, ext_vars, conf_vars, cit_vars>>

\* on_tool_end for a tool of request r (lines 37-42): the callback of the
\* call draws the next number of its counter
ConcToolEnd(r) ==
    /\ requests[r].pc = "agent"
    /\ Len(requests[r].numbers) < MaxConcTools
    /\ counters' = [counters EXCEPT ![CounterOf(r)] = @ + 1]
    /\ requests' = [requests EXCEPT
          ![r].numbers = Append(@, counters[CounterOf(r)] + 1),
          ![r].overlapped = @ \/ \E o \in Requests \ {r} :
                                    /\ requests[o].pc = "agent"
                                    /\ requests[o].numbers # <<>>]
    /\ UNCHANGED <<run_vars, fmt_vars, ext_vars, conf_vars, cit_vars>>

\* lines 659-743 for request r: the run ends with a result or, after an
\* exception, with the error result
ConcFinish(r) ==
    /\ requests[r].pc = "agent"
    /\ \E kind \in {"classified", "error"} :
          requests' = [requests EXCEPT ![r] =
              [@ EXCEPT !.pc = "returned",
                        !.result = ConcResult(requests[r].query, kind,
                                              Len(requests[r].numbers))]]
    /\ UNCHANGED <<counters, run_vars, fmt_vars, ext_vars, conf_vars, cit_vars>>

\* main.py lines 253-279 for request r: no await between the return of the
\* agent and the answer, the store is written in one step
ConcRespond(r) ==
    /\ requests[r].pc = "returned"
    /\ requests' = [requests EXCEPT ![r].pc = "answered"]
    /\ conversations' = StoreConversation(conversations, ConversationIdOf(r),
                                          requests[r].query, requests[r].result)
    /\ UNCHANGED <<counters, entry, cur_query, has_on_step, pc, count, progress,
                   safety, classification, sub_questions, iterations, steps,
                   exhausted, cur_answer, cur_sources, moderation, result, fault,
                   calls, stream_pc, events, prompted, http_response,
                   fmt_vars, ext_vars, conf_vars, cit_vars>>

ConcInit ==
    /\ requests \in [Requests -> {Request("received", q, <<>>, NoConcResult) :
                                     q \in Queries}]
    /\ counters = [o \in CounterOwners |-> 0]

ConcIdle ==
    /\ requests = [r \in Requests |-> Request("off", <<>>, <<>>, NoConcResult)]
    /\ counters = [o \in CounterOwners |-> 0]

ConcNext ==
    \/ \E r \in Requests : ConcSafetyCheck(r)
    \/ \E r \in Requests : ConcToolEnd(r)
    \/ \E r \in Requests : ConcFinish(r)
    \/ \E r \in Requests : ConcRespond(r)

Next ==
    \/ SafetyCheck
    \/ Classify
    \/ Decompose
    \/ StartResearch
    \/ AgentToolCall
    \/ AgentFinish
    \/ AgentExhausted
    \/ AgentFails
    \/ AddCitations
    \/ ModerateAndReturn
    \/ PostResearch
    \/ StreamResearch
    \/ ResearchQueryStream

(***************************************************************************)
(* Specifications                                                          *)
(***************************************************************************)
Init == RunInit /\ FmtIdle /\ ExtIdle /\ ConfIdle /\ ConcIdle /\ CitIdle

Spec == Init /\ [][Next]_vars

InitFormat == FmtInit /\ ExtIdle /\ ConfIdle /\ RunIdle /\ ConcIdle /\ CitIdle

SpecFormat == InitFormat /\ [][FmtNext]_vars

InitExtract == ExtInit /\ FmtIdle /\ ConfIdle /\ RunIdle /\ ConcIdle /\ CitIdle

SpecExtract == InitExtract /\ [][ExtNext]_vars

InitConfidence == ConfInit /\ FmtIdle /\ ExtIdle /\ RunIdle /\ ConcIdle /\ CitIdle

SpecConfidence == InitConfidence /\ [][ConfNext]_vars

InitConcurrent == ConcInit /\ FmtIdle /\ ExtIdle /\ ConfIdle /\ RunIdle /\ CitIdle

SpecConcurrent == InitConcurrent /\ [][ConcNext]_vars

InitCitations == CitInit /\ FmtIdle /\ ExtIdle /\ ConfIdle /\ RunIdle /\ ConcIdle

SpecCitations == InitCitations /\ [][CitNext]_vars

(***************************************************************************)
(* Claims about _ensure_markdown_formatting                                *)
(***************************************************************************)
HasHeading(text) == StartsWith(Strip(text), <<HASH>>)

HasSourcesSection(text) ==
    Contains(text, SourcesHeading) \/ Contains(text, ReferencesHeading)

\* C6: for every non-empty answer, with or without a heading and with or
\* without sources, the formatted text begins with the heading marker "#",
\* also when the formatter takes its internal error path.
C6_FormatStartsWithHeading ==
    (fmt_pc # "input" /\ fmt_answer # <<>>)
        => (fmt_out1 # <<>> /\ Head(fmt_out1) = HASH)

\* the formatter has run on an answer without heading, and on one that took
\* the error path (sources given, no sources section in the text)
C6_Witness ==
    /\ fmt_pc = "once"
    /\ fmt_answer # <<>>
    /\ ~HasHeading(fmt_answer)
    /\ fmt_sources # <<>>
    /\ ~HasSourcesSection(fmt_answer)
    /\ FormatErrorNote = fmt_out1[Len(fmt_out1)]

\* C8: for every answer that already has a heading and a sources section, a
\* second formatting pass over the output of the first returns the same text.
C8_FormatIdempotent ==
    (fmt_pc = "twice" /\ HasHeading(fmt_answer) /\ HasSourcesSection(fmt_answer))
        => fmt_out2 = fmt_out1

(***************************************************************************)
(* Claims about _extract_sources_from_steps                                *)
(***************************************************************************)
NoDuplicateUrls(sources) ==
    \A i, j \in 1..Len(sources) : sources[i].url = sources[j].url => i = j

\* number of distinct URLs among the qualifying items the loop looks at
QualifyingUrls(intermediate_steps) ==
    LET items == FlattenItems(intermediate_steps) IN
    {items[i].url : i \in {k \in 1..Len(items) : Qualifies(items[k])}}

\* C4: for every list of intermediate steps, the extracted list holds no two
\* sources with the same URL and at most 8 sources.
C4_ExtractUniqueAtMost8 ==
    ext_pc = "extracted"
        => (NoDuplicateUrls(ext_out) /\ Len(ext_out) <= 8)

\* the input held more than 8 distinct qualifying URLs and a repeated URL,
\* and the extraction returned 8 sources
C4_Witness ==
    /\ ext_pc = "extracted"
    /\ Cardinality(QualifyingUrls(ext_steps)) > 8
    /\ Len(collected_sources(ext_steps)) > Cardinality(QualifyingUrls(ext_steps))
    /\ Len(ext_out) = 8

(***************************************************************************)
(* Claims about _calculate_enhanced_confidence                             *)
(***************************************************************************)
\* C7: for 0 to 20 sources with relevance in [0,1], every answer length from
\* 0 to 10,000 words, every citation count and both query kinds, the score
\* lies in [0,1] (0..100 hundredths).
C7_ConfidenceInUnitRange ==
    conf_pc = "scored" => (conf_out >= 0 /\ conf_out <= 100)

\* a complex query whose uncapped weighted sum exceeds 1 was scored
C7_Witness ==
    /\ conf_pc = "scored"
    /\ conf_query_type = "complex"
    /\ Len(conf_sources) = 20
    /\ conf_answer.words = 10000
    /\ confidence_numerator(conf_sources, conf_answer, conf_query_type)
           > ConfidenceDen(Len(conf_sources))
    /\ conf_out = 100


(***************************************************************************)
(* Claims about research_query                                             *)
(***************************************************************************)
InputRejected == safety.checked /\ ~safety.is_safe

\* C1: whenever the input safety check rejects the query, research_query
\* returns a result with empty sources, empty research_steps, confidence
\* score 0 and query classification "blocked".
C1_RejectedInputGivesBlockedResult ==
    (entry = "research_query" /\ InputRejected) =>
        /\ pc = "done"
        /\ result.returned
        /\ result.sources = <<>>
        /\ result.research_steps = PyList(<<>>)
        /\ result.confidence_score = 0
        /\ result.query_classification.kind = "blocked"

C1_Witness ==
    /\ entry = "research_query"
    /\ InputRejected
    /\ result.returned
    /\ Contains(result.answer, <<AlternativeLabel>>)

\* an observation long enough to give a best-effort answer
GatheredLongObservation ==
    \E i \in 1..Len(steps) :
        /\ steps[i][2].type = "str"
        /\ CharLen(steps[i][2].text) >= CharLen(<<LongWord>>)

\* C5: when the tool loop ends because its iteration or time budget is
\* exhausted and a long observation was gathered, the run returns a
\* non-empty answer that is not the executor's "Agent stopped" text, and the
\* result is not an error result.
C5_ExhaustedLoopGivesBestEffortAnswer ==
    (pc = "done" /\ exhausted # "" /\ GatheredLongObservation) =>
        /\ result.returned
        /\ result.answer # <<>>
        /\ ~Contains(result.answer, <<MarkerWord>>)
        /\ ~Contains(result.answer, <<LimitStopText>>)
        /\ result.query_classification.kind # "error"

IsErrorResult(r) ==
    /\ r.returned
    /\ StartsWith(r.answer, <<ErrorPrefix>>)
    /\ r.sources = <<>>
    /\ r.research_steps = PyList(<<>>)
    /\ r.confidence_score = 0
    /\ r.query_classification.kind = "error"

\* C9: an exception raised at any stage of a run after the input safety
\* check is caught inside research_query and becomes a returned result with
\* the apology message, empty sources, empty steps, confidence 0 and
\* classification "error"; research_query never raises to its caller.
C9_FaultGivesErrorResult ==
    /\ pc # "raised"
    /\ (entry = "research_query" /\ fault # "") =>
           /\ pc = "done"
           /\ IsErrorResult(result)

C9_Witness ==
    /\ fault = "on_step"
    /\ Len(steps) > 0
    /\ pc = "done"
    /\ IsErrorResult(result)

\* the output check gave a judgment that is not "safe, nothing to filter"
OutputFlagged ==
    /\ moderation.checked
    /\ moderation.reply.ok
    /\ ~moderation.reply.is_safe \/ moderation.reply.requires_filtering

Completed == pc = "done" /\ result.query_classification.kind = "classified"

\* C10 as stated: when the output check flags the answer, the result's
\* answer is the policy refusal and its sources are empty, unless the
\* judgment supplies a replacement text, and then that text is the answer.
C10_FlaggedOutputAsStated ==
    (Completed /\ OutputFlagged) =>
        IF moderation.reply.filtered_response # <<>>
        THEN result.answer = moderation.reply.filtered_response
        ELSE result.answer = <<PolicyRefusal>> /\ result.sources = <<>>

\* C10 as amended: when the output check flags the answer, the result's
\* answer is the policy refusal and its sources are empty, unless the
\* judgment asks for filtering and supplies a replacement text, and then
\* that text is the answer.
C10_FlaggedOutput ==
    (Completed /\ OutputFlagged) =>
        IF moderation.reply.requires_filtering
           /\ moderation.reply.filtered_response # <<>>
        THEN result.answer = moderation.reply.filtered_response
        ELSE result.answer = <<PolicyRefusal>> /\ result.sources = <<>>

C10_Witness ==
    /\ Completed
    /\ OutputFlagged
    /\ ~moderation.reply.requires_filtering
    /\ moderation.reply.filtered_response # <<>>
    /\ extract_sources_from_steps(steps) # <<>>
    /\ result.answer = <<PolicyRefusal>>
    /\ result.sources = <<>>

\* the query was classified simple and the tool loop has run
SimpleRun ==
    /\ classification.classification = "simple"
    /\ pc \in {"agent", "cite", "moderate", "done"}

\* the tool loop ended with the model's final answer
LoopFinished == pc \in {"cite", "moderate"} \/ Completed

\* C13 as stated: for a query classified simple the tool loop runs under the
\* short budget profile and the run result contains at most 4 steps (tool
\* invocations), whatever the model chooses at each iteration.
C13_SimpleRunAsStated ==
    (SimpleRun /\ Completed) =>
        /\ iterations <= SimpleMaxIterations
        /\ Len(steps) <= 4

\* C13 as amended: for a query classified simple the tool loop runs under
\* the short budget profile: it makes at most 5 iterations, and at most 4
\* when it ends with the model's final answer.
C13_SimpleRunBudget ==
    SimpleRun =>
        /\ iterations <= SimpleMaxIterations
        /\ (LoopFinished /\ exhausted = "") => iterations <= SimpleMaxIterations - 1

C13_Witness ==
    /\ SimpleRun
    /\ Completed
    /\ exhausted = ""
    /\ iterations = SimpleMaxIterations - 1
    /\ Len(steps) > iterations

\* the events of the tool-end callbacks that reached on_step, in order
DeliveredToolEvents == SelectSeq(progress, LAMBDA e : e.source = "tool")

\* the search-result items with a non-empty title and a non-empty URL
QualifyingCount(observation) ==
    Cardinality({i \in 1..Len(observation.items) : Qualifies(observation.items[i])})

\* C14: the sources_found count reported for a search step equals the number
\* of qualifying search-result items of that observation (non-empty title
\* and non-empty URL) in the progress event of the tool callback.
C14_SourcesFoundCountsQualifyingItems ==
    (has_on_step /\ Len(DeliveredToolEvents) = Len(steps)) =>
        \A k \in 1..Len(steps) :
            steps[k][1].tool = "web_search" =>
                DeliveredToolEvents[k].sources_found = QualifyingCount(steps[k][2])

\* C18: for every run that is neither blocked nor faulted, the result's steps
\* field is the ordered sequence with one summary per tool invocation, in
\* invocation order and numbered 1..n, and the synchronous endpoint answers
\* with status 200 and that sequence, not with the error object.
C18_StepsReturnedForCompletedRun ==
    Completed =>
        /\ result.research_steps = PyList(research_steps_built(steps))
        /\ http_response # NoResponse =>
              /\ http_response.status = 200
              /\ http_response.research_steps = PyList(research_steps_built(steps))

\* C19: external text is sanitized before it is placed into a model prompt:
\* no model invocation receives a snippet or a page body that has not passed
\* through the sanitizer, and none receives an injection phrase.
C19_PromptsHoldOnlySanitizedText ==
    \A p \in prompted :
        /\ p.sanitized
        /\ ~Contains(p.text, <<InjectionWord>>)

\* the place of a stage in the control flow of research_query
StageRank(stage) ==
    CASE stage = "classify" -> 1
      [] stage = "decompose" -> 2
      [] stage = "research" -> 3
      [] stage = "agent" -> 4
      [] stage = "cite" -> 5
      [] stage = "moderate" -> 6
      [] stage \in {"done", "raised"} -> 7
      [] OTHER -> 0

\* C20: a rejection by the input safety check short-circuits the run: no
\* classification, decomposition, tool, citation or moderation call is made
\* and no progress event is emitted; an admitted run goes through its stages
\* in the order planner, tool loop, citation and formatting, output check,
\* result, and a completed run has been through all of them.
C20_RejectionShortCircuitsAndStagesInOrder ==
    /\ [](InputRejected =>
            /\ calls = {"safety_llm"}
            /\ classification = NoClassification
            /\ sub_questions = <<>>
            /\ steps = <<>> /\ iterations = 0
            /\ ~moderation.checked
            /\ progress = <<>> /\ count = 0
            /\ pc = "done")
    /\ [](Completed =>
            /\ {"safety_llm", "classifier_llm", "llm"} \subseteq calls
            /\ moderation.checked)
    /\ [][StageRank(pc') >= StageRank(pc)
          /\ (pc' # pc /\ pc' \notin {"done", "raised"} =>
                 /\ safety'.is_safe
                 /\ pc' = "moderate" => pc = "cite"
                 /\ pc' = "cite" => pc = "agent"
                 /\ pc' = "agent" => pc = "research"
                 /\ pc' = "research" => pc \in {"classify", "decompose"}
                 /\ pc' = "decompose" => pc = "classify"
                 /\ pc' = "classify" => pc = "start")]_vars

\* a rejected query has returned after the one call of the safety service
C20_Witness ==
    /\ InputRejected
    /\ result.returned
    /\ calls = {"safety_llm"}
    /\ progress = <<>>

\* C17: concurrent runs do not interfere.  For any interleaving of two
\* synchronous requests with distinct conversation ids, the step numbers a
\* run draws are 1, 2, ... as when it runs alone, its result is the result
\* of its own query and its own tool invocations, and after both are
\* answered the store holds under each id exactly that request's query and
\* result.
C17_ConcurrentRunsDoNotInterfere ==
    /\ \A r \in Requests :
          LET q == requests[r] IN
          /\ q.numbers = [i \in 1..Len(q.numbers) |-> i]
          /\ q.pc \in {"returned", "answered"} =>
                /\ q.result.query = q.query
                /\ q.result.tools = Len(q.numbers)
    /\ (\A r \in Requests : requests[r].pc = "answered") =>
          conversations =
              {[id |-> ConversationIdOf(r), query |-> requests[r].query,
                response |-> requests[r].result] : r \in Requests}

\* both requests were in their tool loops at the same time, each drew
\* numbers, and both are answered
C17_Witness ==
    /\ \A r \in Requests :
          /\ requests[r].pc = "answered"
          /\ requests[r].overlapped
          /\ Len(requests[r].numbers) = MaxConcTools
    /\ requests["r1"].query # requests["r2"].query
    /\ Cardinality(conversations) = 2

\* the classifier call failed, its text did not parse, the field is missing
\* or its value is neither simple nor complex
ClassifierReplyUnusable(reply) ==
    ~reply.ok \/ reply.classification \notin {"simple", "complex"}

\* C21: any service failure, parse failure, missing classification field or
\* classification value other than simple/complex makes the classifier
\* return complex with confidence 0.5 and requires_decomposition true; the
\* kind it returns is always simple or complex, and the classification a run
\* holds is one the classifier returned.
C21_ClassifierFallsBackToComplex ==
    /\ \A reply \in ClassifierReplies :
          LET c == classify_query_with_llm(reply) IN
          /\ c.classification \in {"simple", "complex"}
          /\ ClassifierReplyUnusable(reply) =>
                /\ c.classification = "complex"
                /\ c.confidence = 50 /\ c.confidence_is_number
                /\ c.requires_decomposition
    /\ classification # NoClassification =>
          /\ classification \in {classify_query_with_llm(reply) :
                                    reply \in ClassifierReplies}
          /\ classification.classification \in {"simple", "complex"}
          /\ classification.fallback =>
                /\ classification.classification = "complex"
                /\ classification.confidence = 50
                /\ classification.requires_decomposition

\* a run whose classifier call was unusable goes on to the decomposition
C21_Witness ==
    /\ classification.fallback
    /\ classification.classification = "complex"
    /\ pc = "decompose"

\* C22: the decomposition always returns a non-empty sequence of at most 5
\* sub-questions; when the call fails, its output does not parse, or the
\* parsed value is not a non-empty list, the result is the one-element
\* sequence holding the original query; it is invoked only when the
\* classification is complex and requires decomposition.
C22_DecompositionBoundedWithFallback ==
    /\ \A reply \in DecomposeReplies :
          LET sq == decompose_complex_query(cur_query, reply) IN
          /\ Len(sq) \in 1..5
          /\ (~reply.ok \/ reply.n = 0) => sq = <<cur_query>>
    /\ pc = "decompose" =>
          classification.classification = "complex"
              /\ classification.requires_decomposition
    /\ sub_questions # <<>> =>
          /\ classification.classification = "complex"
          /\ classification.requires_decomposition
          /\ "classifier_llm" \in calls
          /\ Len(sub_questions) \in 1..5
          /\ sub_questions \in {decompose_complex_query(cur_query, reply) :
                                   reply \in DecomposeReplies}
    /\ (pc \in {"research", "agent", "cite", "moderate"}
            /\ ~(classification.classification = "complex"
                     /\ classification.requires_decomposition)) =>
          sub_questions = <<>>

\* a run whose decomposition fell back to the original query
C22_Witness ==
    /\ pc = "agent"
    /\ classification.requires_decomposition
    /\ sub_questions = <<cur_query>>

\* C23: the classification selects the budget of the tool loop: the simple
\* profile (5 iterations, 30 s) exactly when the classification is simple,
\* the complex profile (20 iterations, 90 s) otherwise, also when the
\* classification is the failure fallback; both limits of the simple profile
\* are below those of the complex one.
C23_ClassificationSelectsBudget ==
    LET simple == [max_iterations |-> 5, max_execution_time |-> 30]
        complex == [max_iterations |-> 20, max_execution_time |-> 90]
        budget == BudgetProfile(classification.classification)
    IN
    /\ simple.max_iterations < complex.max_iterations
    /\ simple.max_execution_time < complex.max_execution_time
    /\ pc \in {"research", "agent", "cite", "moderate"} =>
          /\ budget = IF classification.classification = "simple"
                      THEN simple ELSE complex
          /\ classification.fallback => budget = complex
          /\ iterations <= budget.max_iterations
          /\ exhausted = "iterations" => iterations = budget.max_iterations
          /\ (pc # "agent" /\ exhausted = "") =>
                iterations < budget.max_iterations

\* a run on the failure fallback gets its answer from the model after more
\* tool-calling iterations than the simple profile allows
C23_Witness ==
    /\ classification.fallback
    /\ pc = "cite"
    /\ exhausted = ""
    /\ iterations = 5

\* an observation that documents a failed tool call
FailedObservation(observation) ==
    \/ observation = ListObs(<<>>)
    \/ observation.type = "str" /\ Contains(observation.text, <<ScrapeErrorText>>)

\* C24: a failing tool never aborts the run.  The search tool and the fetch
\* tool never raise to the loop: a provider error, a missing API key or a
\* timeout gives an empty list or an error text, which is recorded as the
\* observation of the step, and the run goes on to a result whose
\* classification is not "error" unless something other than the tool fails.
C24_FailingToolDoesNotAbortRun ==
    /\ \A o \in ProviderOutcomes :
          /\ web_search_run(o).type = "list"
          /\ web_scrape_run(o).type = "str"
          /\ o \in {"provider_error", "timeout"} =>
                /\ FailedObservation(web_search_run(o))
                /\ FailedObservation(web_scrape_run(o))
          /\ o = "no_api_key" => FailedObservation(web_search_run(o))
    /\ fault # "tool"
    /\ \A k \in 1..Len(steps) : steps[k][2].type \in {"list", "str"}
    /\ (pc = "done" /\ fault = "" /\ steps # <<>>) =>
          result.query_classification.kind = "classified"

\* a run whose first tool call failed went on to more tool calls and
\* returned a result
C24_Witness ==
    /\ Completed
    /\ fault = ""
    /\ Len(steps) >= 2
    /\ FailedObservation(steps[1][2])
    /\ ~FailedObservation(steps[Len(steps)][2])

\* the safety service gave nothing to judge by: the call failed, the reply
\* did not parse, or it lacks the safety flag
NoSafetyJudgment(reply) == ~reply.ok

NoModerationJudgment(reply) == ~reply.ok \/ ~reply.has_flag

\* C25: one policy holds at every safety call site when the safety service
\* fails, its reply does not parse or lacks the safety flag: the input check
\* admits the query unchanged and the output check returns the answer
\* unchanged, in the synchronous run and in the stream alike; no call site
\* rejects or faults in that situation.
C25_SafetyChecksFailOpen ==
    /\ \A reply \in SafetyReplies :
          NoSafetyJudgment(reply) =>
              sanitize_input(cur_query, reply) = <<TRUE, cur_query>>
    /\ \A reply \in ModerationReplies :
          NoModerationJudgment(reply) =>
              moderate_final_output(cur_answer, reply) = <<TRUE, cur_answer>>
    /\ (Completed /\ NoModerationJudgment(moderation.reply)) =>
          result.answer # <<PolicyRefusal>>
    /\ fault # "stream_safety_check"

\* C26: when the citation model returns text without bracket markers, the
\* fallback appends a marker only to the sentences at index 0, 3, 6, ... that
\* are longer than 30 characters and do not already end in "]"; the marker
\* of sentence i is ((i div 3) mod n) + 1, which lies in 1..n for n sources;
\* with no sources or an empty answer the answer is returned unchanged.
C26_FallbackCitesEveryThirdSentence ==
    cit_pc = "cited" =>
        LET n == Len(cit_in.sources)
            before == SplitSentences(cit_in.answer)
            after == SplitSentences(cit_out)
        IN
        /\ (n = 0 \/ cit_in.answer = <<>>) => cit_out = cit_in.answer
        /\ (n > 0 /\ cit_in.answer # <<>> /\ cit_in.reply = "plain") =>
              /\ Len(after) = Len(before)
              /\ \A k \in 1..Len(before) :
                    LET i == k - 1
                        marker == ((i \div 3) % n) + 1
                    IN
                    IF /\ i % 3 = 0
                       /\ CharLen(before[k]) > 30
                       /\ ~EndsWithBracket(before[k])
                    THEN /\ marker \in 1..n
                         /\ after[k] = before[k] \o <<SP, CiteToken(marker)>>
                    ELSE after[k] = before[k]

\* seven sentences and three sources: the sentences 0, 3 and 6 are long and
\* get the markers 1, 2 and 3, the long sentence 1 gets none
C26_Witness ==
    /\ cit_pc = "cited"
    /\ cit_in.reply = "plain"
    /\ Len(cit_in.sources) = 3
    /\ LET before == SplitSentences(cit_in.answer)
           after == SplitSentences(cit_out)
       IN /\ Len(before) = 7
          /\ \A k \in {1, 2, 4, 7} : before[k] = <<LongWord>>
          /\ after[1] = <<LongWord, SP, "[1]">>
          /\ after[2] = <<LongWord>>
          /\ after[4] = <<LongWord, SP, "[2]">>
          /\ after[7] = <<LongWord, SP, "[3]">>

C29_StepNumbersCountUpWithoutDuplicate ==
    has_on_step =>
        /\ \A i \in 1..Len(progress) : progress[i].step_number \in i..count
        /\ \A i, j \in 1..Len(progress) :
              i < j => progress[i].step_number < progress[j].step_number
        /\ count = Len(progress) + ToolCallbackFailures
                      + (IF fault = "on_step" THEN 1 ELSE 0)
        /\ ToolCallbackFailures = 0 =>
              \A i \in 1..Len(progress) : progress[i].step_number = i
        /\ \A i \in 1..Len(progress) :
              progress[i].source = "tool" =>
                  progress[i].step_number = i + ToolCallbackFailures
        /\ fault \in {"", "on_step", "classification", "tool_loop", "recovery"}

\* a completed run in which the delivery of the first tool event failed and
\* the next tool event and the pipeline's events were delivered
C29_Witness ==
    /\ has_on_step
    /\ Completed
    /\ fault = ""
    /\ ToolCallbackFailures = 1
    /\ \E i \in 1..Len(progress) :
          /\ progress[i].source = "tool"
          /\ progress[i].step_number = i + 1
    /\ progress[Len(progress)].source = "pipeline"
    /\ progress[Len(progress)].step_number = count

(***************************************************************************)
(* Claims about the event stream                                           *)
(***************************************************************************)
StreamEnded == stream_pc \in {"closed", "aborted"}

TerminalEvents ==
    {i \in 1..Len(events) : events[i].type \in {"complete", "error"}}

\* C2: every event stream ends with exactly one terminal event, complete or
\* error, and no event follows it.
C2_StreamEndsWithOneTerminalEvent ==
    StreamEnded =>
        /\ Cardinality(TerminalEvents) = 1
        /\ Len(events) \in TerminalEvents

\* the streaming entry's minimum query length, in characters
MinStreamQueryLen == 3

\* C3: for a query shorter than the minimum length the streaming entry
\* emits exactly one error event and no research_step event, and starts no
\* search, fetch or model call.
C3_ShortQueryGivesOneErrorEvent ==
    (StreamEnded /\ CharLen(cur_query) < MinStreamQueryLen) =>
        /\ Cardinality({i \in 1..Len(events) : events[i].type = "error"}) = 1
        /\ \A i \in 1..Len(events) : events[i].type # "research_step"
        /\ calls = {}


EventTypes(lo, hi) == {events[i].type : i \in lo..hi}

\* position of the first event of the type, 0 when there is none
FirstEvent(type) ==
    IF \E i \in 1..Len(events) : events[i].type = type
    THEN CHOOSE i \in 1..Len(events) :
             /\ events[i].type = type
             /\ \A j \in 1..(i - 1) : events[j].type # type
    ELSE 0

\* C11: in every stream the events appear in the contract order: connected
\* first, then the research_step events, then sources, then start_synthesis,
\* then the content_chunk events, then the terminal event; no research_step
\* after sources, no content_chunk before start_synthesis or after complete.
C11_EventsInContractOrder ==
    StreamEnded =>
        /\ Len(events) > 0
        /\ events[1].type = "connected"
        /\ events[Len(events)].type \in {"complete", "error"}
        /\ FirstEvent("sources") # 0 =>
               "research_step" \notin EventTypes(FirstEvent("sources"), Len(events))
        /\ \A i \in 1..Len(events) :
               events[i].type = "content_chunk" =>
                   /\ FirstEvent("start_synthesis") \in 1..(i - 1)
                   /\ FirstEvent("complete") \notin 1..i

====
